---- MODULE Spec2Model ----
(***************************************************************************)
(* Model of the stock-analysis backend: the technical indicator pipeline   *)
(* of modules/technical.py (ATR, SuperTrend, RSI, Bollinger bands, trend   *)
(* label) and the composite scoring stage of main.py (analyze_stock).      *)
(*                                                                         *)
(* Numbers.  Prices are integers (currency units).  pandas/NumPy floats    *)
(* are modelled by exact integers in a stated scale:                       *)
(*   - SuperTrend bands are carried multiplied by BandScale = 2*period,    *)
(*     so hl2 = (H+L)/2 and multiplier*ATR (a mean over `period` bars)     *)
(*     are both integral;                                                   *)
(*   - values rounded to two decimals by round(x, 2) are carried in        *)
(*     hundredths;                                                          *)
(*   - NaN is the value NaN below; every comparison with NaN is false and  *)
(*     every arithmetic result with a NaN operand is NaN, as in IEEE-754;  *)
(*   - Python's None is the value None (numbers) or "None" (strings).      *)
(***************************************************************************)
EXTENDS Integers, Sequences, FiniteSets, TLC

VARIABLES
    d_hist,      \* daily bars returned by ticker.history: Seq of [High, Low, Close]
    w_hist,      \* weekly bars
    m_hist,      \* monthly bars
    st_state,    \* locals of the last calculate_supertrend call (lists per index)
    tech_data,   \* dict returned by the last calculate_technical_indicators call
    request,     \* /analyze: the three extraction results of the pending request
    response     \* /analyze: outcome of analyze_stock for that request

vars == <<d_hist, w_hist, m_hist, st_state, tech_data, request, response>>

----------------------------------------------------------------------------
(* Bounds of the explored input space *)

\* longest daily series explored
MaxBars == 15
\* most positions at which a bar differs from the bar before it
MaxMoves == 2

----------------------------------------------------------------------------
(* Float / None encoding *)

NaN == -999999
None == -999998

IsNum(x) == x # NaN /\ x # None

\* IEEE comparisons: false as soon as one operand is NaN
Lt(a, b) == a # NaN /\ b # NaN /\ a < b
Gt(a, b) == a # NaN /\ b # NaN /\ a > b

Abs(x) == IF x < 0 THEN -x ELSE x
Max2(a, b) == IF a >= b THEN a ELSE b
Min2(a, b) == IF a <= b THEN a ELSE b

\* dict.get(key, default)
Get(d, key, default) == IF key \in DOMAIN d THEN d[key] ELSE default

\* nearest integer to num/den (den > 0, num >= 0), ties to even: round()
RoundHalfEven(num, den) ==
    LET q == num \div den
        r == num % den
    IN  IF 2 * r < den THEN q
        ELSE IF 2 * r > den THEN q + 1
        ELSE IF q % 2 = 0 THEN q ELSE q + 1

----------------------------------------------------------------------------
(* pandas series helpers (a Series is a sequence, index i is 1-based) *)

Column(df, name) == [i \in 1..Len(df) |-> df[i][name]]

\* Series.diff(): first element NaN
Diff(s) == [i \in 1..Len(s) |-> IF i = 1 THEN NaN ELSE s[i] - s[i-1]]

RECURSIVE SumRange(_, _, _)
SumRange(s, lo, hi) == IF lo > hi THEN 0 ELSE s[hi] + SumRange(s, lo, hi - 1)

\* Series.rolling(window).mean() at index i, multiplied by window:
\* NaN until `window` observations exist, NaN if the window holds a NaN
RollingSum(s, window, i) ==
    IF i < window THEN NaN
    ELSE IF \E k \in (i - window + 1)..i : s[k] = NaN THEN NaN
    ELSE SumRange(s, i - window + 1, i)

----------------------------------------------------------------------------
(* calculate_atr / calculate_supertrend *)

period == 10
multiplier == 3
\* bands are carried multiplied by BandScale
BandScale == 2 * period

\* true range of bar i: row-wise max of the three columns, NaN skipped
\* (Close.shift() is NaN on the first row)
TrueRange(df, i) ==
    LET hl == df[i].High - df[i].Low
    IN  IF i = 1 THEN hl
        ELSE Max2(hl, Max2(Abs(df[i].High - df[i-1].Close),
                           Abs(df[i].Low - df[i-1].Close)))

RECURSIVE TrueRanges(_, _)
\* the true_range series up to index n
TrueRanges(df, n) ==
    IF n = 0 THEN <<>> ELSE Append(TrueRanges(df, n - 1), TrueRange(df, n))

RECURSIVE RollingSums(_, _, _)
\* the series s.rolling(window).mean() * window up to index n
RollingSums(s, window, n) ==
    IF n = 0 THEN <<>>
    ELSE Append(RollingSums(s, window, n - 1), RollingSum(s, window, n))

\* calculate_atr(df, p): rolling(p).mean() of true range, times p
calculate_atr(df, p) ==
    LET true_range == TrueRanges(df, Len(df))
    IN  RollingSums(true_range, p, Len(true_range))

\* hl2 + multiplier*atr and hl2 - multiplier*atr at index i, times BandScale
RawUpper(bar, atr_i) ==
    IF atr_i = NaN THEN NaN
    ELSE period * (bar.High + bar.Low) + 2 * multiplier * atr_i
RawLower(bar, atr_i) ==
    IF atr_i = NaN THEN NaN
    ELSE period * (bar.High + bar.Low) - 2 * multiplier * atr_i

\* one iteration of the for loop at index i (i >= 2 here: Python's i >= 1),
\* given the lists up to i-1 and the values final_ub[i], final_lb[i] hold
\* before the iteration; the result is the lists up to i
SuperTrendStep(close_i, ub_i, lb_i, s) ==
    LET close   == close_i * BandScale
        prev    == Len(s.supertrend)
        prev_st == s.supertrend[prev]
        prev_ub == s.final_ub[prev]
        prev_lb == s.final_lb[prev]
    IN  IF Gt(close, prev_ub)
        THEN [supertrend |-> Append(s.supertrend, TRUE),
              final_ub   |-> Append(s.final_ub, ub_i),
              final_lb   |-> Append(s.final_lb, lb_i)]
        ELSE IF Lt(close, prev_lb)
        THEN [supertrend |-> Append(s.supertrend, FALSE),
              final_ub   |-> Append(s.final_ub, ub_i),
              final_lb   |-> Append(s.final_lb, lb_i)]
        ELSE [supertrend |-> Append(s.supertrend, prev_st),
              final_ub   |-> Append(s.final_ub,
                                IF ~prev_st /\ Gt(ub_i, prev_ub) THEN prev_ub ELSE ub_i),
              final_lb   |-> Append(s.final_lb,
                                IF prev_st /\ Lt(lb_i, prev_lb) THEN prev_lb ELSE lb_i)]

RECURSIVE SuperTrendLoop(_, _, _)
\* the for loop, continued from the lists s filled up to index Len - 1
\* (the next index is their length + 1) to the end of df
SuperTrendLoop(df, atr, s) ==
    LET i == Len(s.supertrend) + 1
    IN  IF i > Len(df) THEN s
        ELSE SuperTrendLoop(df, atr,
                 SuperTrendStep(df[i].Close, RawUpper(df[i], atr[i]),
                                RawLower(df[i], atr[i]), s))

\* the lists calculate_supertrend holds when it returns (df not empty):
\* index 1 keeps its initial values, the loop starts at the second bar
SuperTrendLists(df) ==
    LET atr == calculate_atr(df, period)
    IN  SuperTrendLoop(df, atr,
            [supertrend |-> <<TRUE>>,
             final_ub   |-> <<RawUpper(df[1], atr[1])>>,
             final_lb   |-> <<RawLower(df[1], atr[1])>>])

\* return supertrend[-1], final_ub.iloc[-1], final_lb.iloc[-1]
SuperTrendReturn(s) ==
    LET n == Len(s.supertrend)
    IN  [st_signal |-> s.supertrend[n], st_ub |-> s.final_ub[n], st_lb |-> s.final_lb[n]]

calculate_supertrend(df) == SuperTrendReturn(SuperTrendLists(df))

----------------------------------------------------------------------------
(* RSI (calculate_technical_indicators, "# RSI") *)

RsiWindow == 14

\* delta.where(delta > 0, 0): NaN > 0 is false, so the undefined first
\* delta is replaced by 0 as well
GainSeries(close) ==
    LET delta == Diff(close)
    IN  [i \in 1..Len(close) |-> IF Gt(delta[i], 0) THEN delta[i] ELSE 0]

\* -delta.where(delta < 0, 0)
LossSeries(close) ==
    LET delta == Diff(close)
    IN  [i \in 1..Len(close) |-> IF Lt(delta[i], 0) THEN -delta[i] ELSE 0]

\* rolling(14).mean() of each at the last index, times 14
MeanGain(close) == RollingSum(GainSeries(close), RsiWindow, Len(close))
MeanLoss(close) == RollingSum(LossSeries(close), RsiWindow, Len(close))

\* the zero-loss quotient taken as undefined instead of +inf
RsiHundredthsNoInf(g, l) ==
    IF g = NaN \/ l = NaN THEN NaN
    ELSE IF l = 0 THEN NaN
    ELSE LET whole == (100 * g) \div (g + l)
             rest  == (100 * g) % (g + l)
         IN  100 * whole + RoundHalfEven(100 * rest, g + l)

\* 100 - 100/(1 + gain/loss) at the last index, rounded to 2 decimals, in
\* hundredths.  gain/loss is NaN for NaN operands and for 0/0, +inf for
\* g/0 with g > 0 (then 100/(1+inf) = 0); otherwise the value is exactly
\* 100*g/(g+l).  The division is done in two steps to stay within range.
RsiHundredths(g, l) ==
    IF g = NaN \/ l = NaN THEN NaN
    ELSE IF l = 0 THEN (IF g = 0 THEN NaN ELSE 10000)
    ELSE LET whole == (100 * g) \div (g + l)
             rest  == (100 * g) % (g + l)
         IN  100 * whole + RoundHalfEven(100 * rest, g + l)

\* d_hist['RSI'].iloc[-1], already rounded
current_rsi(close) == RsiHundredths(MeanGain(close), MeanLoss(close))

\* "RSI": round(current_rsi, 2) if not np.isnan(current_rsi) else None
RsiOutput(close) ==
    LET r == current_rsi(close) IN IF r # NaN THEN r ELSE None

----------------------------------------------------------------------------
(* Bollinger bands *)

BollWindow == 20

RECURSIVE ISqrtSearch(_, _, _)
\* largest r in lo..hi with r*r <= x
ISqrtSearch(x, lo, hi) ==
    IF lo >= hi THEN lo
    ELSE LET mid == (lo + hi + 1) \div 2
         IN  IF mid * mid <= x THEN ISqrtSearch(x, mid, hi)
             ELSE ISqrtSearch(x, lo, mid - 1)

\* 20 * sum of squares - (sum)^2 over the trailing 20 closes:
\* rolling(20).std() (ddof = 1) squared is this number / (20 * 19)
Variance380(close) ==
    LET n  == Len(close)
        sq == [i \in 1..n |-> close[i] * close[i]]
    IN  BollWindow * SumRange(sq, n - BollWindow + 1, n)
          - SumRange(close, n - BollWindow + 1, n) * SumRange(close, n - BollWindow + 1, n)

\* 2 * std_20 in hundredths, to the nearest hundredth:
\* 200 * sqrt(v / 380) = sqrt(v * 2000 / 19)
TwoStdHundredths(close) ==
    LET x4 == (8000 * Variance380(close)) \div 19      \* (2 * value)^2, floored
        r2 == ISqrtSearch(x4, 0, 46340)                \* floor(2 * value)
    IN  (r2 + 1) \div 2

\* "Bollinger": upper/lower rounded to 2 decimals (hundredths), position
Bollinger(close) ==
    LET n == Len(close)
    IN  IF n < BollWindow
        THEN \* sma_20 and std_20 are NaN; round(nan, 2) is nan; both
             \* comparisons with nan are false
             [upper |-> NaN, lower |-> NaN, position |-> "Neutral"]
        ELSE LET sma100 == 5 * SumRange(close, n - BollWindow + 1, n)
                 up     == sma100 + TwoStdHundredths(close)
                 lo     == sma100 - TwoStdHundredths(close)
                 price  == 100 * close[n]
             IN  [upper |-> up, lower |-> lo,
                  position |-> IF price > up THEN "Overbought"
                               ELSE IF price < lo THEN "Oversold"
                               ELSE "Neutral"]

----------------------------------------------------------------------------
(* get_trend_signal *)

\* the guard reduced to df.empty: with fewer than 20 bars sma_20 is NaN,
\* every comparison is false and the last branch is taken
get_trend_signal_empty_only(df) ==
    IF Len(df) = 0 THEN "N/A"
    ELSE IF Len(df) < 20 THEN "Bearish"
    ELSE LET n      == Len(df)
             close  == Column(df, "Close")
             sum20  == SumRange(close, n - 19, n)
             price  == close[n]
         IN  IF 2000 * price > 105 * sum20 THEN "Strong Bullish"
             ELSE IF 20 * price > sum20 THEN "Bullish"
             ELSE IF 2000 * price < 95 * sum20 THEN "Strong Bearish"
             ELSE "Bearish"

\* "N/A" below 20 bars, else the latest close against sma_20
get_trend_signal(df) ==
    IF Len(df) = 0 \/ Len(df) < 20 THEN "N/A"
    ELSE LET n      == Len(df)
             close  == Column(df, "Close")
             sum20  == SumRange(close, n - 19, n)      \* 20 * sma_20
             price  == close[n]
         IN  IF 2000 * price > 105 * sum20 THEN "Strong Bullish"
             ELSE IF 20 * price > sum20 THEN "Bullish"
             ELSE IF 2000 * price < 95 * sum20 THEN "Strong Bearish"
             ELSE "Bearish"

----------------------------------------------------------------------------
(* calculate_technical_indicators *)

RECURSIVE MinOf(_, _, _)
MinOf(s, lo, hi) == IF lo >= hi THEN s[hi] ELSE Min2(s[lo], MinOf(s, lo + 1, hi))
RECURSIVE MaxOf(_, _, _)
MaxOf(s, lo, hi) == IF lo >= hi THEN s[hi] ELSE Max2(s[lo], MaxOf(s, lo + 1, hi))

\* round(st_lb if st_signal else st_ub, 2), in hundredths
SuperTrendValue(st) ==
    LET band == IF st.st_signal THEN st.st_lb ELSE st.st_ub
    IN  IF band = NaN THEN NaN ELSE (100 * band) \div BandScale

\* the returned dict (MACD_Signal is not modelled)
calculate_technical_indicators(d, w, m) ==
    IF Len(d) = 0 THEN [error |-> "No historical data found"]
    ELSE LET n     == Len(d)
             close == Column(d, "Close")
             st    == calculate_supertrend(d)
         IN  [RSI        |-> RsiOutput(close),
              Bollinger  |-> Bollinger(close),
              SuperTrend |-> [signal |-> IF st.st_signal THEN "Bullish" ELSE "Bearish",
                              value  |-> SuperTrendValue(st)],
              Support    |-> 100 * MinOf(Column(d, "Low"), Max2(1, n - 29), n),
              Resistance |-> 100 * MaxOf(Column(d, "High"), Max2(1, n - 29), n),
              current_price |-> close[n],
              timeframe_analysis |-> [daily   |-> get_trend_signal(d),
                                      weekly  |-> get_trend_signal(w),
                                      monthly |-> get_trend_signal(m)]]

----------------------------------------------------------------------------
(* State machine of the technical pipeline *)

Bar(h, l, c) == [High |-> h, Low |-> l, Close |-> c]

\* daily bars of the SuperTrend exploration (Low <= Close <= High)
STBars == {Bar(6, 6, 6), Bar(6, 0, 6), Bar(6, 0, 5)}

\* daily bars of the RSI exploration: flat bars, closes far apart
RSIBars == {Bar(1, 1, 1), Bar(2, 2, 2), Bar(20002, 20002, 20002)}

Moves(df) == Cardinality({i \in 2..Len(df) : df[i] # df[i-1]})

NotCalled == [pending |-> TRUE]
Called(d) == "pending" \notin DOMAIN d
NoLists == [supertrend |-> <<>>, final_ub |-> <<>>, final_lb |-> <<>>]
NoRequest == [pending |-> TRUE]

InitTech ==
    /\ d_hist = <<>>
    /\ w_hist = <<>>
    /\ m_hist = <<>>
    /\ st_state = NoLists
    /\ tech_data = NotCalled
    /\ request = NoRequest
    /\ response = NotCalled

\* the data source has one more daily bar; results of the previous call
\* do not outlive it
MarketDay(b) ==
    /\ Len(d_hist) < MaxBars
    /\ Moves(Append(d_hist, b)) <= MaxMoves
    /\ d_hist' = Append(d_hist, b)
    /\ st_state' = NoLists
    /\ tech_data' = NotCalled
    /\ UNCHANGED <<w_hist, m_hist, request, response>>

\* calculate_technical_indicators(ticker) on the current history
CalculateTechnicalIndicators ==
    /\ ~Called(tech_data)
    /\ tech_data' = calculate_technical_indicators(d_hist, w_hist, m_hist)
    /\ st_state' = IF Len(d_hist) = 0 THEN NoLists ELSE SuperTrendLists(d_hist)
    /\ UNCHANGED <<d_hist, w_hist, m_hist, request, response>>

Next ==
    \/ \E b \in STBars : MarketDay(b)
    \/ CalculateTechnicalIndicators

Spec == InitTech /\ [][Next]_vars

NextRSI ==
    \/ \E b \in RSIBars : MarketDay(b)
    \/ CalculateTechnicalIndicators

SpecRSI == InitTech /\ [][NextRSI]_vars

\* series of the multi-timeframe exploration: n flat bars, the first n-1
\* closing at 20 and the last at `last`
StepSeries(n, last) ==
    [i \in 1..n |-> IF i < n THEN Bar(20, 20, 20) ELSE Bar(last, last, last)]

\* last closes giving each of the four labels against an sma_20 near 20
LastCloses == {10, 20, 21, 30}
ShortLengths == {1, 5, 19}
LongLengths == {20, 21}

ShortSeries == {StepSeries(n, c) : n \in ShortLengths, c \in LastCloses}
LongSeries == {StepSeries(n, c) : n \in LongLengths, c \in LastCloses}
TimeframeSeries == {<<>>} \cup ShortSeries \cup LongSeries
DailySeries == {<<>>} \cup {StepSeries(n, c) : n \in {5, 20}, c \in {20, 30}}

\* the three histories ticker.history returns for one call
InitTF ==
    /\ d_hist \in DailySeries
    /\ w_hist \in TimeframeSeries
    /\ m_hist \in TimeframeSeries
    /\ st_state = NoLists
    /\ tech_data = NotCalled
    /\ request = NoRequest
    /\ response = NotCalled

NextTF == CalculateTechnicalIndicators

SpecTF == InitTF /\ [][NextTF]_vars

----------------------------------------------------------------------------
(* get_fundamental_analysis / get_sentiment_analysis: the parts analyze_stock
   scores.  debt_to_equity is carried in thousandths, roce and
   intrinsic_value in hundredths, average_polarity in hundredths. *)

\* de_ratio = raw_de / 100.0 if raw_de is not None else None
\* (raw_de in percent, e.g. 150 for 1.5; the ratio in thousandths)
DeRatio(raw_de) == IF raw_de # None THEN 10 * raw_de ELSE None

\* the dict get_fundamental_analysis returns for this `info`
get_fundamental_analysis(info) ==
    IF ~info.has_price
    THEN [error |-> "Too many requests or data unavailable"]
    ELSE [company_info |-> [name |-> info.longName],
          metrics |-> [price           |-> info.currentPrice,
                       debt_to_equity  |-> DeRatio(info.debtToEquity),
                       roce            |-> info.roce,
                       intrinsic_value |-> info.intrinsic_value]]

\* the dict get_sentiment_analysis returns: an error without news, else
\* "average_polarity": round(avg_polarity, 2)
get_sentiment_analysis(news) ==
    IF ~news.has_news
    THEN [error |-> "No news headlines found"]
    ELSE [average_polarity |-> news.avg_polarity]

----------------------------------------------------------------------------
(* analyze_stock: composite scoring *)

\* int(x) for x = num/den, den > 0: truncation toward zero
IntTrunc(num, den) ==
    IF num >= 0 THEN num \div den ELSE -((-num) \div den)

\* tech_score: 50, +20 for a "Bullish" SuperTrend, +15 for a truthy RSI in
\* [40, 60] (RSI in hundredths)
TechScore(rsi, st_signal) ==
    50 + (IF st_signal = "Bullish" THEN 20 ELSE 0)
       + (IF rsi # None /\ rsi # 0 /\ 4000 <= rsi /\ rsi <= 6000 THEN 15 ELSE 0)

\* fund_score: "if de and de < 1", "if roce and roce > 15": a value of 0
\* is falsy in Python, like None
FundScore(de, roce) ==
    50 + (IF de # None /\ de # 0 /\ de < 1000 THEN 20 ELSE 0)
       + (IF roce # None /\ roce # 0 /\ roce > 1500 THEN 20 ELSE 0)

\* polarities p (hundredths) for which the double (p + 1) * 50 is just
\* below the exact integer value (p + 100) / 2 although that value is an
\* integer, e.g. (0.16 + 1) * 50 = 57.99999999999999
FloatShortfall == {-92, -90, -80, -78, -68, -56, -34, 16, 82}

\* sent_score = int((average_polarity + 1) * 50)
SentScore(polarity) ==
    IntTrunc(polarity + 100, 2) - (IF polarity \in FloatShortfall THEN 1 ELSE 0)

\* int(tech*0.4 + fund*0.4 + sent*0.2)
WeightedSum(tech_score, fund_score, sent_score) ==
    IntTrunc(2 * tech_score + 2 * fund_score + sent_score, 5)

\* the clamp left out
ClampNone(x) == x
\* min(max(overall_score, 0), 100)
Clamp(x) == Min2(Max2(x, 0), 100)

OverallScore(tech_score, fund_score, sent_score) ==
    Clamp(WeightedSum(tech_score, fund_score, sent_score))

\* the chain with inclusive thresholds
ClassifyAtLeast(overall_score) ==
    IF overall_score >= 70 THEN [signal |-> "STRONG BUY", verdict |-> "TREASURE"]
    ELSE IF overall_score >= 50 THEN [signal |-> "BUY", verdict |-> "TREASURE"]
    ELSE IF overall_score >= 40 THEN [signal |-> "HOLD", verdict |-> "TRAP"]
    ELSE [signal |-> "SELL", verdict |-> "TRAP"]
Classify(overall_score) ==
    IF overall_score > 70 THEN [signal |-> "STRONG BUY", verdict |-> "TREASURE"]
    ELSE IF overall_score > 50 THEN [signal |-> "BUY", verdict |-> "TREASURE"]
    ELSE IF overall_score > 40 THEN [signal |-> "HOLD", verdict |-> "TRAP"]
    ELSE [signal |-> "SELL", verdict |-> "TRAP"]

\* "Bullish" in label / "Bearish" in label (substring test on the labels)
HasBullish(label) == label \in {"Bullish", "Strong Bullish"}
HasBearish(label) == label \in {"Bearish", "Strong Bearish"}

\* which sentence the rationale's if/elif/else adds; "raise" when the
\* substring test is applied to a missing (None) label
RationaleBranch(tf) ==
    LET daily   == Get(tf, "daily", "None")
        weekly  == Get(tf, "weekly", "None")
        monthly == Get(tf, "monthly", "None")
    IN  IF daily = weekly /\ weekly = monthly THEN "alignment"
        ELSE IF daily = "None" THEN "raise"
        ELSE IF HasBullish(daily) /\ weekly = "None" THEN "raise"
        ELSE IF HasBullish(daily) /\ HasBearish(weekly) THEN "reversal"
        ELSE "monthly"

\* the f-strings format roce and intrinsic_value with ":.2f", which raises
\* TypeError for None
RationaleRaises(tf, roce, intrinsic_value) ==
    \/ RationaleBranch(tf) = "raise"
    \/ roce = None
    \/ intrinsic_value = None

\* the parts the rationale template is filled with
Rationale(tf, roce, intrinsic_value, st_signal, verdict) ==
    [daily   |-> Get(tf, "daily", "None"),
     weekly  |-> Get(tf, "weekly", "None"),
     monthly |-> Get(tf, "monthly", "None"),
     branch  |-> RationaleBranch(tf),
     roce    |-> roce,
     intrinsic_value |-> intrinsic_value,
     st_signal |-> st_signal,
     verdict |-> verdict]

\* str.upper() on one character; a ticker is a tuple of characters
UpperChar(c) ==
    CASE c = "a" -> "A" [] c = "b" -> "B" [] c = "c" -> "C" [] c = "d" -> "D"
      [] c = "e" -> "E" [] c = "f" -> "F" [] c = "g" -> "G" [] c = "h" -> "H"
      [] c = "i" -> "I" [] c = "j" -> "J" [] c = "k" -> "K" [] c = "l" -> "L"
      [] c = "m" -> "M" [] c = "n" -> "N" [] c = "o" -> "O" [] c = "p" -> "P"
      [] c = "q" -> "Q" [] c = "r" -> "R" [] c = "s" -> "S" [] c = "t" -> "T"
      [] c = "u" -> "U" [] c = "v" -> "V" [] c = "w" -> "W" [] c = "x" -> "X"
      [] c = "y" -> "Y" [] c = "z" -> "Z" [] OTHER -> c

Upper(ticker) == [k \in 1..Len(ticker) |-> UpperChar(ticker[k])]

\* what is_indian_market_open can return ("Open" stands for the open
\* status with its green-circle sign)
MarketStatuses ==
    {"Closed (Weekend)", "Open", "Closed (Market Hours: 9:15 AM - 3:30 PM IST)"}

\* is_open = "Open ..." in m_status
IsOpen(m_status) == m_status = "Open"

\* CompanyInfo(**company_info): `name: str` rejects None
CompanyInfoRaises(fund) == Get(fund, "company_info", [name |-> "None"]).name = "None"

\* the fields of the AnalysisResponse the handler returns.  The financial
\* tables, the headlines, MACD, support and resistance are passed through
\* and appear only as keys.
AnalysisResponse(ticker, m_status, tech, fund, scores, expert_rationale) ==
    LET metrics == Get(fund, "metrics", <<>>)
        price   == Get(metrics, "price", None)
        is_open == IsOpen(m_status)
    IN  [ticker            |-> Upper(ticker),
         company_info      |-> fund.company_info,
         current_price     |-> IF is_open THEN price ELSE None,
         closing_price     |-> IF ~is_open THEN price ELSE None,
         overall_score     |-> scores.overall_score,
         signal            |-> scores.signal,
         technical         |-> [score |-> scores.tech_score,
                                rsi   |-> Get(tech, "RSI", None),
                                trend |-> Get(Get(tech, "timeframe_analysis", <<>>),
                                              "daily", "Neutral"),
                                bollinger   |-> tech.Bollinger,
                                super_trend |-> tech.SuperTrend,
                                timeframe_analysis |-> tech.timeframe_analysis],
         fundamental       |-> [score           |-> scores.fund_score,
                                debt_equity     |-> Get(metrics, "debt_to_equity", None),
                                roce            |-> Get(metrics, "roce", None),
                                intrinsic_value |-> Get(metrics, "intrinsic_value", None)],
         sentiment         |-> [score |-> scores.sent_score],
         quarterly_results |-> <<>>,
         annual_results    |-> <<>>,
         market_status     |-> m_status,
         is_market_open    |-> is_open,
         verdict           |-> scores.verdict,
         rationale         |-> expert_rationale]

\* analyze_stock(ticker) given the three extraction results and the market
\* status.  The result records the HTTP status, the scoring locals that
\* were assigned and, for a 200, the response body.
analyze_stock(ticker, m_status, tech, fund, sent) ==
    IF "error" \in DOMAIN fund THEN [status |-> 404]
    ELSE
    LET rsi        == Get(tech, "RSI", None)
        st_signal  == Get(Get(tech, "SuperTrend", <<>>), "signal", "None")
        tech_score == TechScore(rsi, st_signal)
        metrics    == Get(fund, "metrics", <<>>)
        de         == Get(metrics, "debt_to_equity", None)
        roce       == Get(metrics, "roce", None)
        fund_score == FundScore(de, roce)
        sent_score == SentScore(Get(sent, "average_polarity", 0))
        overall_score == OverallScore(tech_score, fund_score, sent_score)
        class      == Classify(overall_score)
        tf         == Get(tech, "timeframe_analysis", <<>>)
        iv         == Get(metrics, "intrinsic_value", None)
        scores     == [tech_score |-> tech_score, fund_score |-> fund_score,
                       sent_score |-> sent_score, overall_score |-> overall_score,
                       signal |-> class.signal, verdict |-> class.verdict]
    IN  IF RationaleRaises(tf, roce, iv)
        THEN \* except Exception: HTTPException(status_code=500)
             [status |-> 500, raised_in |-> "scoring", scores |-> scores]
        ELSE IF "Bollinger" \notin DOMAIN tech
        THEN \* TechnicalBollinger(**None) raises TypeError
             [status |-> 500, raised_in |-> "response", scores |-> scores]
        ELSE IF CompanyInfoRaises(fund)
        THEN \* pydantic ValidationError for company_info.name
             [status |-> 500, raised_in |-> "response", scores |-> scores]
        ELSE LET expert_rationale == Rationale(tf, roce, iv, st_signal, class.verdict)
             IN  [status |-> 200, scores |-> scores,
                  rationale |-> expert_rationale,
                  body |-> AnalysisResponse(ticker, m_status, tech, fund,
                                            scores, expert_rationale)]

----------------------------------------------------------------------------
(* State machine of /analyze: one request, its inputs drawn at the start *)

RsiValues == {None, 0, 4000, 6001}
Labels == {<<"Bullish", "Bullish", "Bullish">>,
           <<"Strong Bullish", "Bearish", "N/A">>,
           <<"Bearish", "Bullish", "N/A">>}

\* results calculate_technical_indicators can return
TechResults ==
    {[error |-> "No historical data found"]} \cup
    {[RSI |-> r,
      Bollinger |-> [upper |-> NaN, lower |-> NaN, position |-> "Neutral"],
      SuperTrend |-> [signal |-> sg, value |-> NaN],
      timeframe_analysis |-> [daily |-> l[1], weekly |-> l[2], monthly |-> l[3]]] :
        r \in RsiValues, sg \in {"Bullish", "Bearish"}, l \in Labels}

\* yfinance `info` and derived values entering get_fundamental_analysis
Infos ==
    {[has_price |-> FALSE, currentPrice |-> None, longName |-> "None",
      debtToEquity |-> None, roce |-> None, intrinsic_value |-> None]} \cup
    [has_price : {TRUE},
     currentPrice : {250000},
     longName : {"Reliance Industries Limited"},
     debtToEquity : {None, -50, 0, 50, 100},
     roce : {None, 1500, 1501},
     intrinsic_value : {None, 12345}]

\* average polarities: every two-decimal value of [-1, 1], and values
\* outside that range
OutOfRangePolarities == {-700, -500, -300, -150, 150, 300, 500}
Polarities == (-100..100) \cup OutOfRangePolarities

NewsFeeds ==
    {[has_news |-> FALSE, avg_polarity |-> 0]} \cup
    [has_news : {TRUE}, avg_polarity : Polarities]

InitScore ==
    /\ d_hist = <<>>
    /\ w_hist = <<>>
    /\ m_hist = <<>>
    /\ st_state = NoLists
    /\ tech_data = NotCalled
    /\ \E t \in TechResults, i \in Infos, n \in NewsFeeds :
          request = [ticker |-> <<"R", "E", "L", "I", "A", "N", "C", "E", ".", "N", "S">>,
                     m_status |-> "Closed (Weekend)",
                     tech_data |-> t,
                     fund_data |-> get_fundamental_analysis(i),
                     sent_data |-> get_sentiment_analysis(n)]
    /\ response = NotCalled

\* GET /analyze
AnalyzeStock ==
    /\ ~Called(response)
    /\ response' = analyze_stock(request.ticker, request.m_status, request.tech_data,
                                 request.fund_data, request.sent_data)
    /\ UNCHANGED <<d_hist, w_hist, m_hist, st_state, tech_data, request>>

NextScore == AnalyzeStock

SpecScore == InitScore /\ [][NextScore]_vars

----------------------------------------------------------------------------
(* State machine of /analyze for the response body: the ticker, the market
   status, the price and the company name vary *)

Tickers == {<<"R", "E", "L", "I", "A", "N", "C", "E", ".", "N", "S">>,
            <<"r", "e", "l", "i", "a", "n", "c", "e", ".", "n", "s">>,
            <<"T", "c", "s", ".", "n", "S">>,
            <<"m", "&", "m", ".", "b", "o">>}

RespTechResults == {t \in TechResults : Get(t, "RSI", 0) \in {0, 6001}}

RespInfos ==
    {i \in Infos : ~i.has_price} \cup
    [has_price : {TRUE},
     currentPrice : {None, 250000},
     longName : {"None", "Reliance Industries Limited"},
     debtToEquity : {None, 50},
     roce : {None, 1501},
     intrinsic_value : {None, 12345}]

RespNewsFeeds == {n \in NewsFeeds : n.avg_polarity \in {0, 50}}

InitResp ==
    /\ d_hist = <<>>
    /\ w_hist = <<>>
    /\ m_hist = <<>>
    /\ st_state = NoLists
    /\ tech_data = NotCalled
    /\ \E tk \in Tickers, ms \in MarketStatuses, t \in RespTechResults,
          i \in RespInfos, n \in RespNewsFeeds :
          request = [ticker |-> tk,
                     m_status |-> ms,
                     tech_data |-> t,
                     fund_data |-> get_fundamental_analysis(i),
                     sent_data |-> get_sentiment_analysis(n)]
    /\ response = NotCalled

NextResp == AnalyzeStock

SpecResp == InitResp /\ [][NextResp]_vars

----------------------------------------------------------------------------
(* Claims about calculate_supertrend *)

\* index pairs (i-1, i) of the lists of the last calculate_supertrend call
StIndices == 2..Len(st_state.supertrend)
CloseAt(i) == d_hist[i].Close * BandScale

\* C1: for every index i > 0, if the trend flag is up at i-1 and at i and
\* close[i] is not below the final lower band at i-1, the final lower band
\* at i is not below the final lower band at i-1 -- also when the trend
\* continues up because close[i] is above the previous final upper band.
C1_LowerBandRatchet ==
    \A i \in StIndices :
        ( /\ st_state.supertrend[i-1]
          /\ st_state.supertrend[i]
          /\ IsNum(st_state.final_lb[i-1])
          /\ ~(CloseAt(i) < st_state.final_lb[i-1]) )
        => st_state.final_lb[i] >= st_state.final_lb[i-1]

\* C2: for every index i > 0 at which the trend flag at i-1 is up and
\* close[i] is strictly below the final lower band at i-1, the trend flag
\* at i is down, whatever the final upper band at i-1 is.
C2_FlipOnBreak ==
    \A i \in StIndices :
        ( /\ st_state.supertrend[i-1]
          /\ IsNum(st_state.final_lb[i-1])
          /\ CloseAt(i) < st_state.final_lb[i-1] )
        => ~st_state.supertrend[i]

----------------------------------------------------------------------------
(* Claims about calculate_technical_indicators *)

Returned == Called(tech_data) /\ "error" \notin DOMAIN tech_data

\* C3: for every daily series shorter than an indicator's lookback the call
\* does not raise and that indicator's numeric output is None: Bollinger
\* upper/lower with fewer than 20 bars, the SuperTrend value (and no
\* "Bullish"/"Bearish" signal) with no more than 10 bars, the RSI with
\* fewer closes than its window.
C3_ShortSeriesAbsent ==
    Returned =>
        /\ Len(d_hist) < BollWindow =>
              /\ tech_data.Bollinger.upper = None
              /\ tech_data.Bollinger.lower = None
        /\ Len(d_hist) <= period =>
              /\ tech_data.SuperTrend.value = None
              /\ tech_data.SuperTrend.signal \notin {"Bullish", "Bearish"}
        /\ Len(d_hist) < RsiWindow => tech_data.RSI = None

\* trailing 14-period mean gain / mean loss of the daily closes (times 14)
DailyGain == MeanGain(Column(d_hist, "Close"))
DailyLoss == MeanLoss(Column(d_hist, "Close"))

\* C10 as stated: the reported RSI is within [0,100] when present; it is
\* exactly 100 if and only if the mean loss is 0 and the mean gain is > 0;
\* it is None when mean gain and mean loss are both 0.
C10_RsiHundredIffZeroLoss ==
    Returned =>
        /\ tech_data.RSI # None => tech_data.RSI \in 0..10000
        /\ tech_data.RSI = 10000 <=> (DailyLoss = 0 /\ Gt(DailyGain, 0))
        /\ (DailyGain = 0 /\ DailyLoss = 0) => tech_data.RSI = None

\* C10 (amended): the reported RSI is within [0,100] when present; it is
\* exactly 100 if and only if the mean gain is > 0 and the mean loss is
\* at most 1/19999 of the mean gain (the unrounded value is >= 99.995,
\* which includes every zero-loss window with a gain); it is None when
\* mean gain and mean loss are both 0.
C10_RsiRange ==
    Returned =>
        /\ tech_data.RSI # None => tech_data.RSI \in 0..10000
        /\ tech_data.RSI = 10000 <=>
              (Gt(DailyGain, 0) /\ DailyLoss # NaN /\ 19999 * DailyLoss <= DailyGain)
        /\ (DailyGain = 0 /\ DailyLoss = 0) => tech_data.RSI = None

\* a reported RSI of exactly 100 over a window whose mean loss is not 0
C10_Witness ==
    /\ Returned
    /\ tech_data.RSI = 10000
    /\ Gt(DailyLoss, 0)

\* C11: the RSI output is None whenever the daily series has fewer than
\* 15 closes (fewer than 14 real day-over-day deltas); in particular a
\* series of 14 closes yields no RSI.
C11_RsiNeedsFifteenCloses ==
    Returned /\ Len(d_hist) < RsiWindow + 1 => tech_data.RSI = None

\* the entries of a returned snapshot computed from the daily series alone
DailyPart(t) ==
    [RSI |-> t.RSI, Bollinger |-> t.Bollinger, SuperTrend |-> t.SuperTrend,
     Support |-> t.Support, Resistance |-> t.Resistance,
     current_price |-> t.current_price, daily |-> t.timeframe_analysis.daily]

\* C12: with an empty daily series the call returns a result carrying an
\* "error" entry; with a non-empty daily series a weekly or monthly series
\* of fewer than 20 bars (or none) only turns that timeframe's label into
\* "N/A": the snapshot is returned, and the other timeframe's label and
\* every daily indicator equal those obtained with a long weekly/monthly
\* series in its place.
C12_ShortTimeframeOnlyNA ==
    Called(tech_data) =>
        IF Len(d_hist) = 0
        THEN "error" \in DOMAIN tech_data
        ELSE /\ "error" \notin DOMAIN tech_data
             /\ Len(w_hist) < 20 =>
                   /\ tech_data.timeframe_analysis.weekly = "N/A"
                   /\ \A wl \in LongSeries :
                         LET ref == calculate_technical_indicators(d_hist, wl, m_hist)
                         IN  /\ DailyPart(tech_data) = DailyPart(ref)
                             /\ tech_data.timeframe_analysis.monthly
                                   = ref.timeframe_analysis.monthly
             /\ Len(m_hist) < 20 =>
                   /\ tech_data.timeframe_analysis.monthly = "N/A"
                   /\ \A ml \in LongSeries :
                         LET ref == calculate_technical_indicators(d_hist, w_hist, ml)
                         IN  /\ DailyPart(tech_data) = DailyPart(ref)
                             /\ tech_data.timeframe_analysis.weekly
                                   = ref.timeframe_analysis.weekly

\* a snapshot from a long daily and monthly series and a non-empty weekly
\* series that is too short: only the weekly label is "N/A"
C12_Witness ==
    /\ Returned
    /\ Len(d_hist) >= 20
    /\ Len(w_hist) \in 1..19
    /\ Len(m_hist) >= 20
    /\ tech_data.timeframe_analysis.weekly = "N/A"
    /\ tech_data.timeframe_analysis.daily = "Strong Bullish"
    /\ tech_data.timeframe_analysis.monthly = "Strong Bearish"

----------------------------------------------------------------------------
(* Claims about analyze_stock *)

\* the scoring stage of the request has run
Scored == Called(response) /\ response.status # 404

ReqMetrics == request.fund_data.metrics
ReqPolarity == Get(request.sent_data, "average_polarity", 0)

\* nearest integer to num/den for any sign of num, ties to even
RoundNearest(num, den) ==
    IF num >= 0 THEN RoundHalfEven(num, den) ELSE -RoundHalfEven(-num, den)

\* C4: the scoring stage never fails: whatever inputs are missing, it
\* produces the scores, signal, verdict and rationale and never ends in
\* the HTTP 500 handler.
C4_ScoringNeverFails ==
    Scored => ~(response.status = 500 /\ response.raised_in = "scoring")

\* C5: the overall score equals 0.4*technical + 0.4*fundamental +
\* 0.2*sentiment rounded to the nearest integer, then clamped to [0,100].
C5_OverallRounded ==
    Scored =>
        LET sc == response.scores
            nearest == RoundNearest(2 * sc.tech_score + 2 * sc.fund_score + sc.sent_score, 5)
        IN  sc.overall_score = (IF nearest < 0 THEN 0 ELSE IF nearest > 100 THEN 100 ELSE nearest)

\* C6: overall_score is always an integer in [0,100], also for
\* out-of-range sub-scores such as a polarity outside [-1,1].
C6_OverallInRange ==
    Scored => response.scores.overall_score \in 0..100

\* a returned response whose weighted sum itself exceeds 100
C6_Witness ==
    /\ Scored
    /\ response.status = 200
    /\ LET sc == response.scores
       IN  WeightedSum(sc.tech_score, sc.fund_score, sc.sent_score) > 100
    /\ response.scores.overall_score = 100

\* C7: (signal, verdict) is a function of overall_score: > 70 STRONG BUY /
\* TREASURE; else > 50 BUY / TREASURE; else > 40 HOLD / TRAP; else SELL /
\* TRAP; 70, 50 and 40 fall in the lower class; the verdict is TREASURE
\* exactly when the signal is BUY or STRONG BUY.
C7_SignalTable ==
    Scored =>
        LET o  == response.scores.overall_score
            sg == response.scores.signal
            v  == response.scores.verdict
        IN  /\ o \in 71..100 => sg = "STRONG BUY" /\ v = "TREASURE"
            /\ o \in 51..70  => sg = "BUY" /\ v = "TREASURE"
            /\ o \in 41..50  => sg = "HOLD" /\ v = "TRAP"
            /\ o \in 0..40   => sg = "SELL" /\ v = "TRAP"
            /\ v = "TREASURE" <=> sg \in {"BUY", "STRONG BUY"}

\* a returned response whose score lies on the boundary 70
C7_Witness ==
    /\ Scored
    /\ response.status = 200
    /\ response.scores.overall_score = 70
    /\ response.scores.signal = "BUY"

\* C8: the fundamental score is 50, plus 20 if debt-to-equity < 1 (a
\* ratio of exactly 0 included), plus 20 if ROCE > 15; a missing value
\* adds nothing; the result is within [0,100].
C8_FundamentalScore ==
    Scored =>
        LET de   == ReqMetrics.debt_to_equity
            roce == ReqMetrics.roce
        IN  /\ response.scores.fund_score =
                  50 + (IF de # None /\ de < 1000 THEN 20 ELSE 0)
                     + (IF roce # None /\ roce > 1500 THEN 20 ELSE 0)
            /\ response.scores.fund_score \in 0..100

\* C9: for every average polarity in [-1,1] the sentiment score equals
\* round((polarity + 1) * 50): 0 at -1, 50 at 0 or when the polarity is
\* missing, 100 at 1, rounded to the nearest integer and not truncated.
C9_SentimentRounded ==
    Scored /\ ReqPolarity \in -100..100 =>
        response.scores.sent_score = RoundNearest(ReqPolarity + 100, 2)

\* the keys test_analyze looks for in the response JSON
required_keys ==
    {"ticker", "price", "overall_score", "signal", "technical", "fundamental",
     "sentiment", "verdict", "rationale"}

\* C13: every 200 response of /analyze has the keys ticker, price,
\* overall_score, signal, technical, fundamental, sentiment, verdict and
\* rationale, and its ticker is the requested ticker in upper case.
C13_ResponseKeys ==
    (Called(response) /\ response.status = 200) =>
        /\ required_keys \subseteq DOMAIN response.body
        /\ response.body.ticker = Upper(request.ticker)

====
